---- MODULE Spec2Model ----
(***************************************************************************)
(* Model of the real-time rep-counting websocket service of                *)
(* morphos-fitness: RepCounter, analyze_form, cors_validation, the         *)
(* ConnectionManager and websocket_endpoint.                               *)
(*                                                                         *)
(* Units.  Vertical positions and confidences are held in hundredths      *)
(* (0.15 is 15, 0.5 is 50), times in tenths of a second (0.5 s is 5).      *)
(***************************************************************************)
EXTENDS Integers, Sequences, FiniteSets, TLC

VARIABLES
    counter,     \* RepCounter spec: the RepCounter object under test
    clock,       \* RepCounter spec: time.time()
    call,        \* RepCounter spec: the latest update call (argument, outcome)
    rep_times,   \* RepCounter spec: clock values of the calls that incremented rep_count
    n_calls,     \* RepCounter spec: number of update calls made
    osc,         \* oscillation driver: the wave being fed and the sample index
    gate,        \* origin-gate spec: configuration, presented origin, decision
    settings,         \* service: Settings() (DEBUG, CORS_ORIGINS)
    websockets,       \* service: every connection attempt, its endpoint task and transport
    heartbeat_tasks,  \* service: the heartbeat task created by each endpoint
    manager,          \* service: the ConnectionManager (active_connections, last_activity)
    session_data,     \* service: the module-level session store
    broadcast_call,   \* service: a caller's manager.broadcast(message) in progress
    send_call,        \* service: a caller's manager.send_message(client_id, message)
    budget            \* service: inputs consumed so far (frames, controls, heartbeats)

pureVars == <<counter, call, rep_times, n_calls, osc, gate>>
sysVars == <<settings, websockets, heartbeat_tasks, manager, session_data,
             broadcast_call, send_call, budget>>
vars == <<counter, clock, call, rep_times, n_calls, osc, gate,
          settings, websockets, heartbeat_tasks, manager, session_data,
          broadcast_call, send_call, budget>>

(***************************************************************************)
(* Bounds of the model.                                                    *)
(***************************************************************************)
T0 == 10            \* the clock at construction, beyond the debounce window
MaxClock == 22      \* the clock stops advancing here
MaxCalls == 6       \* update calls in the RepCounter specification
MaxMalCalls == 3    \* update calls in the malformed-input specification
MaxCycles == 3      \* full oscillations fed by the oscillation driver
MaxSysClock == 16   \* the clock of the service specification stops advancing here
MaxFrames == 3      \* frame messages received, over all connections
MaxControls == 1    \* control messages received, over all connections
MaxBeats == 1       \* heartbeats sent, over all heartbeat tasks

(***************************************************************************)
(* Program constants of RepCounter.                                        *)
(***************************************************************************)
keypoint_idx == 9
max_positions == 10
ConfidenceThreshold == 50
DebounceWindow == 5
MovementThreshold == 15
DefaultValue == 0
NonNumeric == -1    \* stands for a JSON value that is no number (string, null, list)

(***************************************************************************)
(* Helpers on sequences of numbers.                                        *)
(***************************************************************************)
RECURSIVE Sum(_)
Sum(s) == IF s = <<>> THEN 0 ELSE Head(s) + Sum(Tail(s))

SeqMax(s) == CHOOSE x \in {s[i] : i \in 1..Len(s)} : \A j \in 1..Len(s) : s[j] <= x
SeqMin(s) == CHOOSE x \in {s[i] : i \in 1..Len(s)} : \A j \in 1..Len(s) : x <= s[j]
Front(s) == SubSeq(s, 1, Len(s) - 1)
Abs(x) == IF x < 0 THEN -x ELSE x

(***************************************************************************)
(* A keypoints argument.  Only its length and the entry at the tracked     *)
(* index are read by update and analyze_form, so it is held as             *)
(*   [len, kp]        kp the entry at keypoint_idx (read only if len > 9)  *)
(* and an entry as                                                         *)
(*   [shape: "dict" | "other", ykind, y, ckind, conf]                      *)
(* with kind "num" (a number), "missing" (no such key) or "nonnum".        *)
(***************************************************************************)
Entry(yk, yv, ck, cv) == [shape |-> "dict", ykind |-> yk, y |-> yv, ckind |-> ck, conf |-> cv]
NoEntry == [shape |-> "other", ykind |-> "missing", y |-> 0, ckind |-> "missing", conf |-> 0]
Keypoints(n, e) == [len |-> n, kp |-> e]

\* dict.get(key, 0) on the tracked entry
GetY(kp) == IF kp.ykind = "missing" THEN DefaultValue
            ELSE IF kp.ykind = "nonnum" THEN NonNumeric ELSE kp.y
GetConfidence(kp) == IF kp.ckind = "missing" THEN DefaultValue ELSE kp.conf

(***************************************************************************)
(* RepCounter.__init__                                                     *)
(***************************************************************************)
RepCounterNew ==
    [positions |-> <<>>, going_up |-> "None", rep_count |-> 0, last_rep_time |-> 0]

\* return self.rep_count
ReturnedOffByOne(self) == [self |-> self, ret |-> self.rep_count + 1, raised |-> FALSE]
Returned(self) == [self |-> self, ret |-> self.rep_count, raised |-> FALSE]
Raised(self)   == [self |-> self, ret |-> self.rep_count, raised |-> TRUE]

HasNonNumeric(s) == \E i \in 1..Len(s) : s[i] = NonNumeric

\* append with the newest value dropped when over capacity
AppendPositionDropNewest(positions, current_y) ==
    LET p == Append(positions, current_y)
    IN  IF Len(p) > max_positions THEN Front(p) ELSE p

\* positions.append(current_y); pop(0) when over capacity
AppendPosition(positions, current_y) ==
    LET p == Append(positions, current_y)
    IN  IF Len(p) > max_positions THEN Tail(p) ELSE p

\* the direction test with <= in place of <
DirectionUpOrLevel(positions) ==
    positions[Len(positions)] * (Len(positions) - 1) <= Sum(Front(positions))

\* current_y < sum(positions[:-1]) / (len(positions) - 1)
DirectionUp(positions) ==
    positions[Len(positions)] * (Len(positions) - 1) < Sum(Front(positions))

BoolStr(b) == IF b THEN "True" ELSE "False"

\* the debounce test of line 145
DebounceOkOffByOne(current_time, last_rep_time) ==
    current_time - last_rep_time >= DebounceWindow
DebounceOk(current_time, last_rep_time) == current_time - last_rep_time > DebounceWindow

\* the movement test of line 148
MovementOkNoMin(positions) == Abs(SeqMax(positions)) > MovementThreshold
MovementOk(positions) == Abs(SeqMax(positions) - SeqMin(positions)) > MovementThreshold

\* lines 140-151: is a rep counted by this update
RepDetected(self, positions, direction_up, current_time) ==
    /\ self.going_up # "None"
    /\ self.going_up # BoolStr(direction_up)
    /\ DebounceOk(current_time, self.last_rep_time)
    /\ MovementOk(positions)

\* lines 126-154 with a detected rep counted twice
AcceptCountingTwice(self, current_y, current_time) ==
    LET positions == AppendPosition(self.positions, current_y)
        s1 == [self EXCEPT !.positions = positions]
    IN  IF Len(positions) < 3 THEN Returned(s1)
        ELSE IF HasNonNumeric(positions) THEN Raised(s1)
        ELSE LET direction_up == DirectionUp(positions)
                 counted == RepDetected(self, positions, direction_up, current_time)
             IN  Returned([s1 EXCEPT
                    !.rep_count = IF counted THEN @ + 2 ELSE @,
                    !.last_rep_time = IF counted THEN current_time ELSE @,
                    !.going_up = BoolStr(direction_up)])

\* the accepted-sample part of update, lines 126-154
Accept(self, current_y, current_time) ==
    LET positions == AppendPosition(self.positions, current_y)
        s1 == [self EXCEPT !.positions = positions]
    IN  IF Len(positions) < 3 THEN Returned(s1)
        ELSE IF HasNonNumeric(positions) THEN Raised(s1)   \* TypeError in sum() or <
        ELSE LET direction_up == DirectionUp(positions)
                 counted == RepDetected(self, positions, direction_up, current_time)
             IN  Returned([s1 EXCEPT
                    !.rep_count = IF counted THEN @ + 1 ELSE @,
                    !.last_rep_time = IF counted THEN current_time ELSE @,
                    !.going_up = BoolStr(direction_up)])

\* the confidence gate of line 123
LowConfidenceNegated(current_confidence) == current_confidence > ConfidenceThreshold
LowConfidence(current_confidence) == current_confidence < ConfidenceThreshold

\* the guard of line 115
NoTrackedKeypoint(keypoints) == keypoints.len = 0 \/ keypoints.len <= keypoint_idx

\* RepCounter.update(keypoints), with time.time() = current_time
Update(self, keypoints, current_time) ==
    IF NoTrackedKeypoint(keypoints) THEN Returned(self)
    ELSE LET kp == keypoints.kp IN
         IF kp.shape # "dict" THEN Raised(self)            \* no .get on a non-dict
         ELSE IF kp.ckind = "nonnum" THEN Raised(self)     \* TypeError in < 0.5
         ELSE IF LowConfidence(GetConfidence(kp)) THEN Returned(self)
         ELSE Accept(self, GetY(kp), current_time)

(***************************************************************************)
(* Inputs.                                                                 *)
(***************************************************************************)
YValues == {40, 50, 70}
Confidences == {30, 50, 90}
Steps == {5, 6}                    \* clock advances between calls

\* lists whose tracked entry, if any, is a well-formed keypoint
WellFormedInputs ==
    {Keypoints(0, NoEntry), Keypoints(3, NoEntry)}
    \cup {Keypoints(10, Entry("num", y, "num", c)) : y \in YValues, c \in Confidences}

\* lists whose tracked entry is malformed: wrong shape, missing or non-numeric fields
MalformedInputs ==
    {Keypoints(10, NoEntry)}
    \cup {Keypoints(10, Entry(yk, 40, ck, 90)) :
            yk \in {"num", "missing", "nonnum"}, ck \in {"num", "missing", "nonnum"}}

IsLowConfidence(keypoints) ==
    /\ ~NoTrackedKeypoint(keypoints)
    /\ keypoints.kp.shape = "dict"
    /\ keypoints.kp.ckind = "num"
    /\ keypoints.kp.conf < ConfidenceThreshold

NoCall == [keypoints |-> Keypoints(0, NoEntry), ret |-> 0, raised |-> FALSE]
NoOsc == [A |-> 0, H |-> 1, dt |-> 0, k |-> 0, marks |-> <<>>, reversals |-> 0]
NoOrigin == [present |-> FALSE, value |-> ""]
NoGate == [DEBUG |-> FALSE, CORS_ORIGINS |-> {}, origin |-> NoOrigin,
           decided |-> FALSE, approved |-> FALSE]

(***************************************************************************)
(* The service's state after import: default Settings, an empty            *)
(* ConnectionManager, an empty session store, no connection attempted.     *)
(***************************************************************************)
Clients == {"c1", "c2"}
ConnSeq == <<"w1", "w2">>
Conns == {ConnSeq[i] : i \in 1..Len(ConnSeq)}

\* Settings(): DEBUG False, CORS_ORIGINS with the wildcard
SettingsDefault ==
    [DEBUG |-> FALSE,
     CORS_ORIGINS |-> {"*", "https://localhost:8080", "http://localhost:8080",
                       "http://localhost:3000", "https://localhost:3000", "null",
                       "https://morphos-backend-service-1020595365432.us-central1.run.app"}]

\* a JSON message on the wire; the fields a message of its type lacks keep
\* the values given here
Message(type) ==
    [type |-> type, error |-> "none", status |-> 0,
     has_keypoints |-> FALSE, keypoints |-> Keypoints(0, NoEntry),
     has_rep_count |-> FALSE, rep_count |-> 0,
     has_form_quality |-> FALSE, form_quality |-> "none"]
NoMessage == Message("none")

\* a connection nobody has attempted yet
NoWebSocket ==
    [pc |-> "none", client_id |-> "c1", origin |-> NoOrigin, approved |-> FALSE,
     accepted |-> FALSE, peer |-> "open", n_sent |-> 0, last_sent |-> NoMessage,
     prev |-> "none", ever_active |-> FALSE]

EmptyDict == [k \in {} |-> 0]

\* ConnectionManager.__init__; next_slot is the number of insertions made
\* into active_connections, which orders its items
ConnectionManagerNew ==
    [active_connections |-> <<>>, last_activity |-> EmptyDict, next_slot |-> 0]

NoBroadcast == [pc |-> "idle", used |-> 0, slot |-> 0, client_id |-> "c1",
                websocket |-> "w1", targets |-> {}, delivered |-> {}]
NoSend == [pc |-> "idle", client_id |-> "c1", websocket |-> "w1", registered |-> FALSE,
           delivered |-> {}]
NoBudget == [frames |-> 0, controls |-> 0, beats |-> 0]

SysInit ==
    /\ settings = SettingsDefault
    /\ websockets = [w \in Conns |-> NoWebSocket]
    /\ heartbeat_tasks = [w \in Conns |-> "none"]
    /\ manager = ConnectionManagerNew
    /\ session_data = EmptyDict
    /\ broadcast_call = NoBroadcast
    /\ send_call = NoSend
    /\ budget = NoBudget

(***************************************************************************)
(* The RepCounter specifications: one RepCounter, fed by update calls      *)
(* under a non-decreasing clock.                                           *)
(***************************************************************************)
RepInit ==
    /\ counter = RepCounterNew
    /\ clock = T0
    /\ call = NoCall
    /\ rep_times = <<>>
    /\ n_calls = 0
    /\ osc = NoOsc
    /\ gate = NoGate
    /\ SysInit

\* one call of update at the current clock
DoUpdate(keypoints) ==
    LET r == Update(counter, keypoints, clock)
    IN  /\ counter' = r.self
        /\ call' = [keypoints |-> keypoints, ret |-> r.ret, raised |-> r.raised]
        /\ rep_times' = IF r.self.rep_count > counter.rep_count
                        THEN Append(rep_times, clock) ELSE rep_times
        /\ n_calls' = n_calls + 1
        /\ UNCHANGED sysVars

\* time passes
Tick(dt) ==
    /\ dt > 0
    /\ clock + dt <= MaxClock
    /\ clock' = clock + dt
    /\ UNCHANGED <<counter, call, rep_times, n_calls, osc, gate>>
    /\ UNCHANGED sysVars

RepUpdate(keypoints) ==
    /\ n_calls < MaxCalls
    /\ DoUpdate(keypoints)
    /\ UNCHANGED <<clock, osc, gate>>

RepNext ==
    \/ \E dt \in Steps : Tick(dt)
    \/ \E k \in WellFormedInputs : RepUpdate(k)

SpecRep == RepInit /\ [][RepNext]_vars

\* the same RepCounter fed well-formed and malformed lists
MalUpdate(keypoints) ==
    /\ n_calls < MaxMalCalls
    /\ DoUpdate(keypoints)
    /\ UNCHANGED <<clock, osc, gate>>

MalNext ==
    \/ \E dt \in Steps : Tick(dt)
    \/ \E k \in WellFormedInputs \cup MalformedInputs : MalUpdate(k)

SpecMal == RepInit /\ [][MalNext]_vars

(***************************************************************************)
(* The oscillation driver: a triangle wave between 0.40 and 0.40 + A,      *)
(* H samples per half period, one sample every dt tenths of a second,      *)
(* every sample with confidence 0.9.  marks holds rep_count as returned    *)
(* at each trough (samples 0, 2H, 4H, ...), reversals the number of calls  *)
(* that found the direction reversed.                                      *)
(***************************************************************************)
Reversed(before, after) ==
    before.going_up # "None" /\ after.going_up # before.going_up

Wave(A, H, k) ==
    LET m == k % (2 * H)
        d == IF m <= H THEN m ELSE 2 * H - m
    IN  40 + (A * d) \div H

OscParams ==
    {p \in [A : {10, 30}, H : {1, 2, 5}, dt : 0..6] :
        p.A = 30 => 2 * p.H * p.dt > 10}

OscInit ==
    /\ counter = RepCounterNew
    /\ clock = T0
    /\ call = NoCall
    /\ rep_times = <<>>
    /\ n_calls = 0
    /\ \E p \in OscParams : osc = [A |-> p.A, H |-> p.H, dt |-> p.dt, k |-> 0,
                                 marks |-> <<>>, reversals |-> 0]
    /\ gate = NoGate
    /\ SysInit

OscFeed ==
    /\ osc.A > 0
    /\ osc.k <= 2 * osc.H * MaxCycles
    /\ LET t == IF osc.k = 0 THEN clock ELSE clock + osc.dt
           keypoints == Keypoints(17, Entry("num", Wave(osc.A, osc.H, osc.k), "num", 90))
           r == Update(counter, keypoints, t)
       IN  /\ counter' = r.self
           /\ clock' = t
           /\ call' = [keypoints |-> keypoints, ret |-> r.ret, raised |-> r.raised]
           /\ rep_times' = IF r.self.rep_count > counter.rep_count
                           THEN Append(rep_times, t) ELSE rep_times
           /\ n_calls' = n_calls + 1
           /\ osc' = [osc EXCEPT !.k = @ + 1,
                                 !.marks = IF osc.k % (2 * osc.H) = 0
                                           THEN Append(@, r.ret) ELSE @,
                                 !.reversals = IF Reversed(counter, r.self)
                                               THEN @ + 1 ELSE @]
    /\ UNCHANGED gate
    /\ UNCHANGED sysVars

OscNext == OscFeed

SpecOsc == OscInit /\ [][OscNext]_vars

(***************************************************************************)
(* RepCounter claims.                                                      *)
(***************************************************************************)

\* C1: fed a high-confidence oscillation of amplitude 0.3 and period longer
\* than 1 s, rep_count grows by exactly 1 per full oscillation (every
\* oscillation after the first, which establishes the direction).
C1_OnePerOscillation ==
    osc.A = 30 =>
        \A n \in 2..(Len(osc.marks) - 1) : osc.marks[n + 1] - osc.marks[n] = 1

\* C2: any two update calls that each increment rep_count are more than
\* 0.5 s apart.
C2_RepsDebounced ==
    \A i, j \in 1..Len(rep_times) :
        i < j => rep_times[j] - rep_times[i] > DebounceWindow

\* two reps have been counted
C2_Witness == Len(rep_times) >= 2

\* C3: an oscillation of amplitude 0.1 never increments rep_count, however
\* many direction reversals it shows and whatever their timing.
C3_SmallAmplitudeNeverCounts == osc.A = 10 => counter.rep_count = 0

\* an amplitude-0.1 wave of period 1.2 s that has reversed direction repeatedly
C3_Witness ==
    /\ osc.A = 10
    /\ osc.H = 1
    /\ osc.dt = 6
    /\ osc.reversals >= 4
    /\ counter.rep_count = 0

\* C4: a call whose tracked keypoint has confidence below 0.5 returns the
\* unchanged rep_count and changes nothing of the RepCounter.
C4_LowConfidenceNoEffect ==
    [][(n_calls' = n_calls + 1 /\ IsLowConfidence(call'.keypoints))
          => /\ counter' = counter
             /\ call'.ret = counter.rep_count
             /\ ~call'.raised]_vars

\* a low-confidence call made on a RepCounter with an established direction
C4_Witness ==
    /\ n_calls > 0
    /\ IsLowConfidence(call.keypoints)
    /\ Len(counter.positions) >= 3
    /\ counter.going_up # "None"

\* C5: update never raises, whatever the list it is given.
C5_NeverRaises == n_calls > 0 => ~call.raised

(***************************************************************************)
(* cors_validation.  The Origin header of the handshake is absent          *)
(* (present = FALSE, None in the code) or carries a string.                *)
(***************************************************************************)
Origin(v) == [present |-> TRUE, value |-> v]

\* Python truth value of the extracted origin: None and "" are false
Truthy(origin) == origin.present /\ origin.value # ""

cors_validationIgnoringAbsence(origin, DEBUG, CORS_ORIGINS) ==
    \/ DEBUG
    \/ (origin.present /\ origin.value \in CORS_ORIGINS)
    \/ "*" \in CORS_ORIGINS

cors_validation(origin, DEBUG, CORS_ORIGINS) ==
    IF DEBUG THEN TRUE
    ELSE IF Truthy(origin) /\ (origin.value \in CORS_ORIGINS \/ "*" \in CORS_ORIGINS)
         THEN TRUE
         ELSE FALSE

OriginHeaders ==
    {NoOrigin} \cup {Origin(v) : v \in {"", "https://example.com", "https://evil.example", "null"}}

AllowSets == SUBSET {"*", "https://example.com", "null"}

(***************************************************************************)
(* The origin-gate specification: cors_validation applied to every         *)
(* combination of debug flag, allow-set and Origin header.                 *)
(***************************************************************************)
GateInit ==
    /\ counter = RepCounterNew
    /\ clock = T0
    /\ call = NoCall
    /\ rep_times = <<>>
    /\ n_calls = 0
    /\ osc = NoOsc
    /\ \E d \in BOOLEAN, a \in AllowSets, o \in OriginHeaders :
          gate = [DEBUG |-> d, CORS_ORIGINS |-> a, origin |-> o,
                  decided |-> FALSE, approved |-> FALSE]
    /\ SysInit

GateDecide ==
    /\ ~gate.decided
    /\ gate' = [gate EXCEPT !.decided = TRUE,
                            !.approved = cors_validation(gate.origin, gate.DEBUG,
                                                         gate.CORS_ORIGINS)]
    /\ UNCHANGED <<counter, clock, call, rep_times, n_calls, osc>>
    /\ UNCHANGED sysVars

GateNext == GateDecide

SpecGate == GateInit /\ [][GateNext]_vars

(***************************************************************************)
(* Origin-gate claims.                                                     *)
(***************************************************************************)

\* C7 as stated: with debug enabled every origin is approved; with debug
\* disabled the decision is true iff the presented origin is in the allow-set
\* or the allow-set holds the wildcard; an absent origin with allow-set
\* {"https://example.com"} is rejected.
C7_ApproveIffAllowedOrWildcard ==
    gate.decided =>
        /\ gate.DEBUG => gate.approved
        /\ ~gate.DEBUG =>
              (gate.approved <=>
                  \/ (gate.origin.present /\ gate.origin.value \in gate.CORS_ORIGINS)
                  \/ "*" \in gate.CORS_ORIGINS)
        /\ (~gate.DEBUG /\ ~gate.origin.present
              /\ gate.CORS_ORIGINS = {"https://example.com"}) => ~gate.approved

\* C7 amended: with debug enabled every origin is approved; with debug
\* disabled the decision is true iff an Origin header is present and not
\* empty and it is in the allow-set or the allow-set holds the wildcard; an
\* absent origin is rejected whenever debug is disabled.
C7_ApproveIffPresentAndAllowed ==
    gate.decided =>
        /\ gate.DEBUG => gate.approved
        /\ ~gate.DEBUG =>
              (gate.approved <=>
                  /\ gate.origin.present
                  /\ gate.origin.value # ""
                  /\ \/ gate.origin.value \in gate.CORS_ORIGINS
                     \/ "*" \in gate.CORS_ORIGINS)
        /\ (~gate.DEBUG /\ ~gate.origin.present) => ~gate.approved

\* an absent origin rejected although the allow-set holds the wildcard
C7_Witness ==
    /\ gate.decided
    /\ ~gate.DEBUG
    /\ ~gate.origin.present
    /\ "*" \in gate.CORS_ORIGINS
    /\ ~gate.approved

(***************************************************************************)
(* ConnectionManager.  active_connections is a dict: its items are held    *)
(* in insertion order, each with the ordinal (slot) of its insertion; a    *)
(* dict iterator walks the slots upwards.  last_activity is a dict whose   *)
(* order is never read.                                                    *)
(***************************************************************************)
DictPut(d, k, v) == [x \in DOMAIN d \cup {k} |-> IF x = k THEN v ELSE d[x]]
DictDel(d, k) == [x \in DOMAIN d \ {k} |-> d[x]]

\* client_id in self.active_connections
Registered(self, client_id) ==
    \E i \in 1..Len(self.active_connections) :
        self.active_connections[i].client_id = client_id

\* self.active_connections[client_id]
Lookup(self, client_id) ==
    LET i == CHOOSE i \in 1..Len(self.active_connections) :
                 self.active_connections[i].client_id = client_id
    IN  self.active_connections[i].websocket

RegisteredIds(self) ==
    {self.active_connections[i].client_id : i \in 1..Len(self.active_connections)}

\* ConnectionManager.connect
connect(self, websocket, client_id, now) ==
    [active_connections |->
        IF Registered(self, client_id)
        THEN [i \in 1..Len(self.active_connections) |->
                 IF self.active_connections[i].client_id = client_id
                 THEN [self.active_connections[i] EXCEPT !.websocket = websocket]
                 ELSE self.active_connections[i]]
        ELSE Append(self.active_connections,
                    [client_id |-> client_id, websocket |-> websocket,
                     slot |-> self.next_slot]),
     last_activity |-> DictPut(self.last_activity, client_id, now),
     next_slot |-> IF Registered(self, client_id) THEN self.next_slot
                   ELSE self.next_slot + 1]

\* a disconnect that empties both dicts
disconnectEveryone(self, client_id) ==
    [self EXCEPT !.active_connections = <<>>, !.last_activity = EmptyDict]

\* ConnectionManager.disconnect
disconnect(self, client_id) ==
    [self EXCEPT
        !.active_connections = SelectSeq(@, LAMBDA e : e.client_id # client_id),
        !.last_activity = DictDel(@, client_id)]

\* self.last_activity[client_id] = time.time()
touch(self, client_id, now) ==
    [self EXCEPT !.last_activity = DictPut(@, client_id, now)]

(***************************************************************************)
(* The transport.  send_json on a connection whose peer has gone, or whose *)
(* endpoint has returned (the server then closes it), raises or is         *)
(* silently dropped, depending on the server; on an open connection the    *)
(* message is delivered.                                                   *)
(***************************************************************************)
Closed(ws) == ws.peer = "closed" \/ ws.pc \in {"rejected", "aborted", "done", "failed"}

SendOutcomes(ws) == IF Closed(ws) THEN {"raised", "lost"} ELSE {"delivered"}

AfterSend(sockets, w, message, outcome) ==
    IF outcome = "delivered"
    THEN [sockets EXCEPT ![w].n_sent = @ + 1, ![w].last_sent = message]
    ELSE sockets

\* a cleanup that leaves the heartbeat task running
CancelForgotten(tasks, w) == tasks

\* heartbeat_task.cancel()
Cancel(tasks, w) ==
    [tasks EXCEPT ![w] = IF @ \in {"created", "sleeping"} THEN "cancelled" ELSE @]

(***************************************************************************)
(* call_inference_service.  The HTTP exchange ends in a response (status,  *)
(* body), in a timeout or in a transport failure.  A body is JSON or not;  *)
(* a JSON body may hold a "keypoints" list.                                *)
(***************************************************************************)
Body(valid, has, keypoints) ==
    [valid_json |-> valid, has_keypoints |-> has, keypoints |-> keypoints]
Response(status, body) == [kind |-> "response", status |-> status, body |-> body]
Timeout == [kind |-> "timeout", status |-> 0, body |-> Body(FALSE, FALSE, Keypoints(0, NoEntry))]
Refused == [kind |-> "refused", status |-> 0, body |-> Body(FALSE, FALSE, Keypoints(0, NoEntry))]

StatusOk == 200

ErrorResult(text, status) ==
    [Message("result") EXCEPT !.error = text, !.status = status]

call_inference_service(http) ==
    IF http.kind = "timeout" THEN ErrorResult("Inference service timeout", 0)
    ELSE IF http.kind = "refused" THEN ErrorResult("Error calling inference service", 0)
    ELSE IF http.status # StatusOk THEN ErrorResult("Inference service error", http.status)
    ELSE IF ~http.body.valid_json THEN ErrorResult("Error calling inference service", 0)
    ELSE [Message("result") EXCEPT !.has_keypoints = http.body.has_keypoints,
                                   !.keypoints = http.body.keypoints]

\* "error" in analysis_results
IsError(result) == result.error # "none"

(***************************************************************************)
(* analyze_form                                                            *)
(***************************************************************************)
MinKeypoints == 10

analyze_form(keypoints, exercise_type) ==
    IF keypoints.len = 0 \/ keypoints.len < MinKeypoints THEN "unknown" ELSE "good"

(***************************************************************************)
(* Session store.                                                          *)
(***************************************************************************)
SessionNew(now) ==
    [rep_counter |-> RepCounterNew, exercise_type |-> "squat",
     last_frame_time |-> now, processed_frames |-> 0]

\* a parsed control message: a JSON object that may hold "exercise_type"
\* and "action"
Control(has_type, exercise_type, action) ==
    [has_exercise_type |-> has_type, exercise_type |-> exercise_type, action |-> action]

\* lines 229-239 without the counter replacement of lines 233-235
ApplyControlKeepCounter(session, control) ==
    LET s1 == IF control.has_exercise_type
              THEN [session EXCEPT !.exercise_type = control.exercise_type]
              ELSE session
    IN  IF control.action = "reset" THEN [s1 EXCEPT !.rep_counter = RepCounterNew] ELSE s1

\* lines 229-239
ApplyControl(session, control) ==
    LET s1 == IF control.has_exercise_type
              THEN [session EXCEPT !.exercise_type = control.exercise_type,
                                   !.rep_counter = RepCounterNew]
              ELSE session
    IN  IF control.action = "reset" THEN [s1 EXCEPT !.rep_counter = RepCounterNew] ELSE s1

ControlKind(control) ==
    IF control.has_exercise_type THEN "exercise_type"
    ELSE IF control.action = "reset" THEN "reset" ELSE "other"

LogEvery == 100

\* lines 247-256: frame bookkeeping; the statistics line divides by elapsed
FrameBookkeeping(session, current_time) ==
    LET elapsed == current_time - session.last_frame_time
        s1 == [session EXCEPT !.last_frame_time = current_time,
                              !.processed_frames = @ + 1]
    IN  [session |-> s1,
         raised |-> (s1.processed_frames % LogEvery = 0 /\ elapsed = 0)]

\* lines 262-281 with the rep counter consulted for error results too
HandleResultCountingErrors(session, result, current_time) ==
    IF ~result.has_keypoints
    THEN [raised |-> FALSE, session |-> session,
          message |-> [result EXCEPT !.has_rep_count = IsError(result),
                                     !.rep_count = session.rep_counter.rep_count]]
    ELSE LET u == Update(session.rep_counter, result.keypoints, current_time)
             s1 == [session EXCEPT !.rep_counter = u.self]
             m1 == [result EXCEPT !.has_rep_count = TRUE, !.rep_count = u.ret]
         IN  IF u.raised
             THEN [raised |-> TRUE, session |-> s1, message |-> NoMessage]
             ELSE IF result.keypoints.len > 0
             THEN [raised |-> FALSE, session |-> s1,
                   message |-> [m1 EXCEPT
                       !.has_form_quality = TRUE,
                       !.form_quality = analyze_form(result.keypoints,
                                                     session.exercise_type)]]
             ELSE [raised |-> FALSE, session |-> s1, message |-> m1]

\* lines 262-281: from the inference result to the message sent back
HandleResult(session, result, current_time) ==
    IF IsError(result)
    THEN [raised |-> FALSE, session |-> session, message |-> result]
    ELSE IF ~result.has_keypoints
    THEN [raised |-> FALSE, session |-> session, message |-> result]
    ELSE LET u == Update(session.rep_counter, result.keypoints, current_time)
             s1 == [session EXCEPT !.rep_counter = u.self]
             m1 == [result EXCEPT !.has_rep_count = TRUE, !.rep_count = u.ret]
         IN  IF u.raised
             THEN [raised |-> TRUE, session |-> s1, message |-> NoMessage]
             ELSE IF result.keypoints.len > 0
             THEN [raised |-> FALSE, session |-> s1,
                   message |-> [m1 EXCEPT
                       !.has_form_quality = TRUE,
                       !.form_quality = analyze_form(result.keypoints,
                                                     session.exercise_type)]]
             ELSE [raised |-> FALSE, session |-> s1, message |-> m1]

(***************************************************************************)
(* Inputs of the service.                                                  *)
(***************************************************************************)
PresentedOrigins == {NoOrigin, Origin("https://example.com")}

Controls ==
    {Control(TRUE, "bicep_curl", "none"), Control(FALSE, "none", "reset"),
     Control(FALSE, "none", "none")}

FrameKeypoints ==
    {Keypoints(0, NoEntry), Keypoints(3, NoEntry), Keypoints(17, NoEntry)}
    \cup {Keypoints(17, Entry("num", y, "num", 90)) : y \in {40, 70}}

HttpOutcomes ==
    {Timeout, Refused,
     Response(500, Body(TRUE, FALSE, Keypoints(0, NoEntry))),
     Response(200, Body(FALSE, FALSE, Keypoints(0, NoEntry))),
     Response(200, Body(TRUE, FALSE, Keypoints(0, NoEntry)))}
    \cup {Response(200, Body(TRUE, TRUE, k)) : k \in FrameKeypoints}

(***************************************************************************)
(* websocket_endpoint, one task per connection attempt w.  Its positions:  *)
(*   none       not attempted            rejected   returned at line 192   *)
(*   accepting  awaiting accept()        aborted    accept() raised        *)
(*   receiving  awaiting receive_text()  inferring  awaiting the inference *)
(*   done       left by WebSocketDisconnect         failed  left by another*)
(*                                                          exception      *)
(***************************************************************************)
NextConn(w) ==
    \E i \in 1..Len(ConnSeq) :
        /\ ConnSeq[i] = w
        /\ websockets[w].pc = "none"
        /\ \A j \in 1..(i - 1) : websockets[ConnSeq[j]].pc # "none"

\* the endpoint's entry with the accept moved ahead of the origin check
AttemptAcceptFirst(w, client_id, origin) ==
    /\ NextConn(w)
    /\ websockets' = [websockets EXCEPT ![w] =
          [@ EXCEPT !.pc = "accepting",
                    !.client_id = client_id,
                    !.origin = origin,
                    !.approved = cors_validation(origin, settings.DEBUG,
                                                 settings.CORS_ORIGINS)]]
    /\ UNCHANGED <<heartbeat_tasks, manager, session_data, broadcast_call, send_call,
                   budget, clock, pureVars, settings>>

\* lines 186-195: the origin check, then the call of accept()
Attempt(w, client_id, origin) ==
    /\ NextConn(w)
    /\ LET approved == cors_validation(origin, settings.DEBUG, settings.CORS_ORIGINS)
       IN  websockets' = [websockets EXCEPT ![w] =
              [@ EXCEPT !.pc = IF approved THEN "accepting" ELSE "rejected",
                        !.client_id = client_id,
                        !.origin = origin,
                        !.approved = approved]]
    /\ UNCHANGED <<heartbeat_tasks, manager, session_data, broadcast_call, send_call,
                   budget, clock, pureVars, settings>>

\* a cleanup that resets the registry instead of removing one client
CleanupManagerReset(m, w) == ConnectionManagerNew

\* lines 283-294: manager.disconnect(client_id) of the endpoint's cleanup
CleanupManager(m, w) == disconnect(m, websockets[w].client_id)

\* lines 195-217 without the test of line 205: every accepted connection
\* starts a new session
AcceptDoneFreshSession(w, accepted, welcomed) ==
    LET ws == websockets[w]
        id == ws.client_id
        m1 == connect(manager, w, id, clock)
        sd1 == DictPut(session_data, id, SessionNew(clock))
        welcome == Message("connected")
    IN  /\ ws.pc = "accepting"
        /\ accepted \in SendOutcomes(ws)
        /\ welcomed \in SendOutcomes(ws)
        /\ IF accepted = "raised"
           THEN /\ websockets' = [websockets EXCEPT ![w].pc = "aborted"]
                /\ UNCHANGED <<manager, heartbeat_tasks, session_data>>
           ELSE IF welcomed = "raised"
           THEN /\ websockets' = [websockets EXCEPT ![w].pc = "failed",
                                                    ![w].accepted = TRUE]
                /\ manager' = disconnect(m1, id)
                /\ heartbeat_tasks' = [heartbeat_tasks EXCEPT ![w] = "cancelled"]
                /\ session_data' = sd1
           ELSE /\ websockets' = AfterSend(
                        [websockets EXCEPT ![w].pc = "receiving",
                                           ![w].accepted = TRUE,
                                           ![w].ever_active = TRUE],
                        w, welcome, welcomed)
                /\ manager' = m1
                /\ heartbeat_tasks' = [heartbeat_tasks EXCEPT ![w] = "created"]
                /\ session_data' = sd1
        /\ UNCHANGED <<broadcast_call, send_call, budget, clock, pureVars, settings>>

\* lines 195-217: accept() returns; register, start the heartbeat, create the
\* session if there is none, send the welcome
AcceptDone(w, accepted, welcomed) ==
    LET ws == websockets[w]
        id == ws.client_id
        m1 == connect(manager, w, id, clock)
        sd1 == IF id \in DOMAIN session_data THEN session_data
               ELSE DictPut(session_data, id, SessionNew(clock))
        welcome == Message("connected")
    IN  /\ ws.pc = "accepting"
        /\ accepted \in SendOutcomes(ws)
        /\ welcomed \in SendOutcomes(ws)
        /\ IF accepted = "raised"
           THEN /\ websockets' = [websockets EXCEPT ![w].pc = "aborted"]
                /\ UNCHANGED <<manager, heartbeat_tasks, session_data>>
           ELSE IF welcomed = "raised"
           THEN /\ websockets' = [websockets EXCEPT ![w].pc = "failed",
                                                    ![w].accepted = TRUE]
                /\ manager' = disconnect(m1, id)
                /\ heartbeat_tasks' = [heartbeat_tasks EXCEPT ![w] = "cancelled"]
                /\ session_data' = sd1
           ELSE /\ websockets' = AfterSend(
                        [websockets EXCEPT ![w].pc = "receiving",
                                           ![w].accepted = TRUE,
                                           ![w].ever_active = TRUE],
                        w, welcome, welcomed)
                /\ manager' = m1
                /\ heartbeat_tasks' = [heartbeat_tasks EXCEPT ![w] = "created"]
                /\ session_data' = sd1
        /\ UNCHANGED <<broadcast_call, send_call, budget, clock, pureVars, settings>>

\* line 221 raises WebSocketDisconnect: the peer has closed
RecvDisconnect(w) ==
    /\ websockets[w].pc = "receiving"
    /\ websockets[w].peer = "closed"
    /\ websockets' = [websockets EXCEPT ![w].pc = "done"]
    /\ heartbeat_tasks' = Cancel(heartbeat_tasks, w)
    /\ manager' = CleanupManager(manager, w)
    /\ UNCHANGED <<session_data, broadcast_call, send_call, budget, clock, pureVars,
                   settings>>

\* line 221 raises another exception: a message that is no text frame
RecvFault(w) ==
    /\ websockets[w].pc = "receiving"
    /\ websockets[w].peer = "open"
    /\ websockets' = [websockets EXCEPT ![w].pc = "failed"]
    /\ heartbeat_tasks' = Cancel(heartbeat_tasks, w)
    /\ manager' = CleanupManager(manager, w)
    /\ UNCHANGED <<session_data, broadcast_call, send_call, budget, clock, pureVars,
                   settings>>

\* the control branch answering only the messages with a recognized field: a
\* JSON object with neither field falls through to the frame branch
RecvControlForwardingUnknown(w, control) ==
    LET ws == websockets[w]
        id == ws.client_id
        ok == Message("ok")
        b == FrameBookkeeping(session_data[id], clock)
    IN  /\ ws.pc = "receiving"
        /\ ws.peer = "open"
        /\ budget.controls < MaxControls
        /\ budget' = [budget EXCEPT !.controls = @ + 1]
        /\ IF ControlKind(control) = "other"
           THEN /\ session_data' = [session_data EXCEPT ![id] = b.session]
                /\ websockets' = [websockets EXCEPT ![w].pc = "inferring",
                                                    ![w].prev = "other"]
           ELSE /\ session_data' = [session_data EXCEPT ![id] = ApplyControl(@, control)]
                /\ websockets' = AfterSend(
                        [websockets EXCEPT ![w].prev = ControlKind(control)],
                        w, ok, "delivered")
        /\ UNCHANGED <<heartbeat_tasks, manager, broadcast_call, send_call, clock,
                       pureVars, settings>>

\* lines 221-242: a text message that parses as a JSON object
RecvControl(w, control) ==
    LET ws == websockets[w]
        id == ws.client_id
        ok == Message("ok")
    IN  /\ ws.pc = "receiving"
        /\ ws.peer = "open"
        /\ budget.controls < MaxControls
        /\ budget' = [budget EXCEPT !.controls = @ + 1]
        /\ session_data' = [session_data EXCEPT ![id] = ApplyControl(@, control)]
        /\ websockets' = AfterSend([websockets EXCEPT ![w].prev = ControlKind(control)],
                                   w, ok, "delivered")
        /\ UNCHANGED <<heartbeat_tasks, manager, broadcast_call, send_call, clock,
                       pureVars, settings>>

\* lines 221-259: any other text message is a frame; bookkeeping, then the
\* call of the inference service
RecvFrame(w) ==
    LET ws == websockets[w]
        id == ws.client_id
        b == FrameBookkeeping(session_data[id], clock)
    IN  /\ ws.pc = "receiving"
        /\ ws.peer = "open"
        /\ budget.frames < MaxFrames
        /\ budget' = [budget EXCEPT !.frames = @ + 1]
        /\ session_data' = [session_data EXCEPT ![id] = b.session]
        /\ IF b.raised
           THEN /\ websockets' = [websockets EXCEPT ![w].pc = "failed", ![w].prev = "frame"]
                /\ heartbeat_tasks' = Cancel(heartbeat_tasks, w)
                /\ manager' = CleanupManager(manager, w)
           ELSE /\ websockets' = [websockets EXCEPT ![w].pc = "inferring",
                                                    ![w].prev = "frame"]
                /\ UNCHANGED <<heartbeat_tasks, manager>>
        /\ UNCHANGED <<broadcast_call, send_call, clock, pureVars, settings>>

\* lines 259-281 with an error result logged and not sent
InferReturnDroppingErrors(w, http, sent) ==
    LET ws == websockets[w]
        id == ws.client_id
        result == call_inference_service(http)
        h == HandleResult(session_data[id], result, clock)
    IN  /\ ws.pc = "inferring"
        /\ sent \in SendOutcomes(ws)
        /\ session_data' = [session_data EXCEPT ![id] = h.session]
        /\ IF IsError(result)
           THEN /\ websockets' = [websockets EXCEPT ![w].pc = "receiving"]
                /\ UNCHANGED <<heartbeat_tasks, manager>>
           ELSE IF h.raised \/ sent = "raised"
           THEN /\ websockets' = [websockets EXCEPT ![w].pc = "failed"]
                /\ heartbeat_tasks' = Cancel(heartbeat_tasks, w)
                /\ manager' = CleanupManager(manager, w)
           ELSE /\ websockets' = AfterSend([websockets EXCEPT ![w].pc = "receiving"],
                                           w, h.message, sent)
                /\ UNCHANGED <<heartbeat_tasks, manager>>
        /\ UNCHANGED <<broadcast_call, send_call, budget, clock, pureVars, settings>>

\* lines 259-281: the inference call returns; the result is handled and sent
InferReturn(w, http, sent) ==
    LET ws == websockets[w]
        id == ws.client_id
        h == HandleResult(session_data[id], call_inference_service(http), clock)
    IN  /\ ws.pc = "inferring"
        /\ sent \in SendOutcomes(ws)
        /\ session_data' = [session_data EXCEPT ![id] = h.session]
        /\ IF h.raised \/ sent = "raised"
           THEN /\ websockets' = [websockets EXCEPT ![w].pc = "failed"]
                /\ heartbeat_tasks' = Cancel(heartbeat_tasks, w)
                /\ manager' = CleanupManager(manager, w)
           ELSE /\ websockets' = AfterSend([websockets EXCEPT ![w].pc = "receiving"],
                                           w, h.message, sent)
                /\ UNCHANGED <<heartbeat_tasks, manager>>
        /\ UNCHANGED <<broadcast_call, send_call, budget, clock, pureVars, settings>>

\* the client goes away
PeerClose(w) ==
    /\ websockets[w].pc \in {"accepting", "receiving", "inferring"}
    /\ websockets[w].peer = "open"
    /\ websockets' = [websockets EXCEPT ![w].peer = "closed"]
    /\ UNCHANGED <<heartbeat_tasks, manager, session_data, broadcast_call, send_call,
                   budget, clock, pureVars, settings>>

(***************************************************************************)
(* ConnectionManager.heartbeat(client_id), the task created by endpoint w. *)
(*   created   not yet run      sleeping   awaiting asyncio.sleep          *)
(*   done      returned         cancelled  cancelled by its endpoint       *)
(***************************************************************************)
\* first run: the loop test of line 54, then the sleep
HeartbeatStart(w) ==
    /\ heartbeat_tasks[w] = "created"
    /\ heartbeat_tasks' = [heartbeat_tasks EXCEPT ![w] =
          IF Registered(manager, websockets[w].client_id) THEN "sleeping" ELSE "done"]
    /\ UNCHANGED <<websockets, manager, session_data, broadcast_call, send_call, budget,
                   clock, pureVars, settings>>

\* the wake-up without the membership test of line 56: the heartbeat goes out
\* on the task's own connection
HeartbeatWakeUnchecked(w, sent) ==
    LET id == websockets[w].client_id
        beat == Message("heartbeat")
    IN  /\ heartbeat_tasks[w] = "sleeping"
        /\ budget.beats < MaxBeats
        /\ budget' = [budget EXCEPT !.beats = @ + 1]
        /\ sent \in SendOutcomes(websockets[w])
        /\ IF sent = "raised"
           THEN /\ manager' = disconnect(manager, id)
                /\ heartbeat_tasks' = [heartbeat_tasks EXCEPT ![w] = "done"]
                /\ UNCHANGED websockets
           ELSE /\ websockets' = AfterSend(websockets, w, beat, sent)
                /\ UNCHANGED <<manager, heartbeat_tasks>>
        /\ UNCHANGED <<session_data, broadcast_call, send_call, clock, pureVars, settings>>

\* lines 55-63: the sleep ends; test, send the heartbeat, test again
HeartbeatWake(w, sent) ==
    LET id == websockets[w].client_id
        beat == Message("heartbeat")
    IN  /\ heartbeat_tasks[w] = "sleeping"
        /\ IF ~Registered(manager, id)
           THEN /\ sent = "lost"
                /\ heartbeat_tasks' = [heartbeat_tasks EXCEPT ![w] = "done"]
                /\ UNCHANGED <<websockets, manager, budget>>
           ELSE /\ budget.beats < MaxBeats
                /\ budget' = [budget EXCEPT !.beats = @ + 1]
                /\ sent \in SendOutcomes(websockets[Lookup(manager, id)])
                /\ IF sent = "raised"
                   THEN /\ manager' = disconnect(manager, id)
                        /\ heartbeat_tasks' = [heartbeat_tasks EXCEPT ![w] = "done"]
                        /\ UNCHANGED websockets
                   ELSE /\ websockets' = AfterSend(websockets, Lookup(manager, id),
                                                   beat, sent)
                        /\ UNCHANGED <<manager, heartbeat_tasks>>
        /\ UNCHANGED <<session_data, broadcast_call, send_call, clock, pureVars, settings>>

(***************************************************************************)
(* A caller of ConnectionManager.send_message(client_id, message).         *)
(***************************************************************************)
\* lines 40-42, up to the await
SendMessageStart(client_id) ==
    /\ send_call.pc = "idle"
    /\ send_call' =
          IF Registered(manager, client_id)
          THEN [send_call EXCEPT !.pc = "sending", !.client_id = client_id,
                                 !.websocket = Lookup(manager, client_id),
                                 !.registered = TRUE]
          ELSE [send_call EXCEPT !.pc = "returned", !.client_id = client_id]
    /\ UNCHANGED <<websockets, heartbeat_tasks, manager, session_data, broadcast_call,
                   budget, clock, pureVars, settings>>

\* lines 42-43: send_json returns or raises
SendMessageSent(sent) ==
    LET direct == Message("direct") IN
    /\ send_call.pc = "sending"
    /\ sent \in SendOutcomes(websockets[send_call.websocket])
    /\ IF sent = "raised"
       THEN /\ send_call' = [send_call EXCEPT !.pc = "raised"]
            /\ UNCHANGED <<websockets, manager>>
       ELSE /\ send_call' = [send_call EXCEPT
                  !.pc = "returned",
                  !.delivered = IF sent = "delivered" THEN {send_call.websocket} ELSE {}]
            /\ websockets' = AfterSend(websockets, send_call.websocket, direct, sent)
            /\ manager' = touch(manager, send_call.client_id, clock)
    /\ UNCHANGED <<heartbeat_tasks, session_data, broadcast_call, budget, clock,
                   pureVars, settings>>

(***************************************************************************)
(* A caller of ConnectionManager.broadcast(message).  The loop iterates    *)
(* over active_connections.items(); taking the next item raises            *)
(* RuntimeError when the dict has changed size since the loop began.       *)
(***************************************************************************)
\* the items the iterator has still to yield, in order
ItemsAfter(self, slot) ==
    SelectSeq(self.active_connections, LAMBDA e : e.slot > slot)

\* take the next item and start its send, or leave the loop
BroadcastAdvance(bc, self, slot) ==
    IF Len(self.active_connections) # bc.used THEN [bc EXCEPT !.pc = "raised"]
    ELSE IF ItemsAfter(self, slot) = <<>> THEN [bc EXCEPT !.pc = "returned"]
    ELSE LET e == Head(ItemsAfter(self, slot))
         IN  [bc EXCEPT !.pc = "sending", !.slot = e.slot,
                        !.client_id = e.client_id, !.websocket = e.websocket]

\* line 47, first iteration, up to the await of line 48
BroadcastStart ==
    /\ broadcast_call.pc = "idle"
    /\ broadcast_call' = BroadcastAdvance(
          [broadcast_call EXCEPT
              !.used = Len(manager.active_connections),
              !.targets = {manager.active_connections[i].websocket :
                              i \in 1..Len(manager.active_connections)}],
          manager, -1)
    /\ UNCHANGED <<websockets, heartbeat_tasks, manager, session_data, send_call,
                   budget, clock, pureVars, settings>>

\* lines 48-49 and the next iteration of line 47
BroadcastSent(sent) ==
    LET announce == Message("broadcast")
        m1 == touch(manager, broadcast_call.client_id, clock)
    IN
    /\ broadcast_call.pc = "sending"
    /\ sent \in SendOutcomes(websockets[broadcast_call.websocket])
    /\ IF sent = "raised"
       THEN /\ broadcast_call' = [broadcast_call EXCEPT !.pc = "raised"]
            /\ UNCHANGED <<websockets, manager>>
       ELSE /\ websockets' = AfterSend(websockets, broadcast_call.websocket,
                                       announce, sent)
            /\ manager' = m1
            /\ broadcast_call' = BroadcastAdvance(
                  [broadcast_call EXCEPT !.delivered =
                      IF sent = "delivered" THEN @ \cup {broadcast_call.websocket}
                      ELSE @],
                  m1, broadcast_call.slot)
    /\ UNCHANGED <<heartbeat_tasks, session_data, send_call, budget, clock, pureVars,
                   settings>>

\* time passes in the service
SysTick ==
    /\ clock + 6 <= MaxSysClock
    /\ clock' = clock + 6
    /\ UNCHANGED <<pureVars, sysVars>>

Init ==
    /\ counter = RepCounterNew
    /\ clock = T0
    /\ call = NoCall
    /\ rep_times = <<>>
    /\ n_calls = 0
    /\ osc = NoOsc
    /\ gate = NoGate
    /\ SysInit

Outcomes == {"delivered", "raised", "lost"}

(***************************************************************************)
(* The service specification: connections of two client identifiers        *)
(* running concurrently with their heartbeats and with a caller of         *)
(* send_message and a caller of broadcast.                                 *)
(***************************************************************************)
Next ==
    \/ \E w \in Conns, id \in Clients, o \in PresentedOrigins : Attempt(w, id, o)
    \/ \E w \in Conns, a, b \in Outcomes : AcceptDone(w, a, b)
    \/ \E w \in Conns : RecvDisconnect(w)
    \/ \E w \in Conns : RecvFault(w)
    \/ \E w \in Conns : PeerClose(w)
    \/ \E w \in Conns : HeartbeatStart(w)
    \/ \E w \in Conns, o \in Outcomes : HeartbeatWake(w, o)
    \/ \E id \in Clients : SendMessageStart(id)
    \/ \E o \in Outcomes : SendMessageSent(o)
    \/ BroadcastStart
    \/ \E o \in Outcomes : BroadcastSent(o)

Spec == Init /\ [][Next]_vars

(***************************************************************************)
(* The session specification: client "c1" alone on one connection, with    *)
(* every kind of control message and inference outcome.                    *)
(***************************************************************************)
SessionNext ==
    \/ \E o \in PresentedOrigins : Attempt("w1", "c1", o)
    \/ \E a, b \in Outcomes : AcceptDone("w1", a, b)
    \/ RecvDisconnect("w1")
    \/ RecvFault("w1")
    \/ \E c \in Controls : RecvControl("w1", c)
    \/ RecvFrame("w1")
    \/ \E h \in HttpOutcomes, o \in Outcomes : InferReturn("w1", h, o)
    \/ PeerClose("w1")
    \/ HeartbeatStart("w1")
    \/ \E o \in Outcomes : HeartbeatWake("w1", o)
    \/ SysTick

SpecSession == Init /\ [][SessionNext]_vars

(***************************************************************************)
(* Claims about the session and the service.                               *)
(***************************************************************************)
\* client "c1" has sent {"exercise_type": "bicep_curl"} as its only control
\* message, then its first frame, for which the inference service returned a
\* list of 3 keypoints, and the response to that frame has been delivered
C6_Scenario ==
    LET ws == websockets["w1"] IN
    /\ ws.client_id = "c1"
    /\ ws.pc = "receiving"
    /\ ws.prev = "frame"
    /\ budget.controls = 1
    /\ budget.frames = 1
    /\ "c1" \in DOMAIN session_data
    /\ session_data["c1"].exercise_type = "bicep_curl"
    /\ ws.last_sent.type = "result"
    /\ ws.last_sent.error = "none"
    /\ ws.last_sent.has_keypoints
    /\ ws.last_sent.keypoints.len = 3

\* C6 as the code has it: the control message {"exercise_type": "bicep_curl"}
\* is answered by {"status": "ok"}; the response to the first frame after it,
\* for which the inference service returned 3 keypoints (a list with no index
\* 9), includes rep_count 0 and form_quality "unknown"
C6_FirstFrameAfterControlCountsNothing ==
    LET ws == websockets["w1"] IN
    /\ (ws.pc = "receiving" /\ ws.prev = "exercise_type" /\ budget.beats = 0)
          => ws.last_sent = Message("ok")
    /\ C6_Scenario =>
          /\ ws.last_sent.has_rep_count
          /\ ws.last_sent.rep_count = 0
          /\ ws.last_sent.has_form_quality
          /\ ws.last_sent.form_quality = "unknown"

\* C6 as stated: the response to that frame includes rep_count 1
C6_FirstFrameAfterControlCountsOneRep ==
    C6_Scenario =>
        /\ websockets["w1"].last_sent.has_rep_count
        /\ websockets["w1"].last_sent.rep_count = 1

\* the scenario has run: welcome, {"status": "ok"} and the frame's response
\* have been delivered
C6_Witness == C6_Scenario /\ websockets["w1"].n_sent = 3

\* is connection w held by the registry
InRegistry(w) ==
    \E i \in 1..Len(manager.active_connections) :
        manager.active_connections[i].websocket = w

\* C8: the origin check comes strictly before the accept: an attempt that
\* cors_validation rejects is never accepted, never registered, gets no
\* heartbeat task, is never active and is sent no message; a client whose
\* attempts were all rejected has no session and no activity record; every
\* accepted connection was approved first
C8_RejectedNeverAccepted ==
    /\ \A w \in Conns :
          (websockets[w].pc # "none" /\ ~websockets[w].approved) =>
              /\ websockets[w].pc = "rejected"
              /\ ~websockets[w].accepted
              /\ ~websockets[w].ever_active
              /\ websockets[w].n_sent = 0
              /\ heartbeat_tasks[w] = "none"
              /\ ~InRegistry(w)
    /\ \A w \in Conns : websockets[w].accepted => websockets[w].approved
    /\ \A id \in Clients :
          (\A w \in Conns : (websockets[w].pc # "none" /\ websockets[w].client_id = id)
                                => ~websockets[w].approved)
              => /\ id \notin DOMAIN session_data
                 /\ id \notin DOMAIN manager.last_activity
                 /\ ~Registered(manager, id)

\* an attempt was rejected while another connection of the same client is
\* registered and has been sent messages
C8_Witness ==
    \E w, v \in Conns :
        /\ websockets[w].pc = "rejected"
        /\ websockets[v].pc = "receiving"
        /\ websockets[v].client_id = websockets[w].client_id
        /\ InRegistry(v)
        /\ websockets[v].n_sent > 1

\* C9: broadcast does not raise to its caller, and when it returns every
\* connection that was registered when it was called and is still open has
\* been sent the message
C9_BroadcastDeliversToTheRest ==
    /\ broadcast_call.pc # "raised"
    /\ broadcast_call.pc = "returned" =>
          \A w \in broadcast_call.targets :
              ~Closed(websockets[w]) => w \in broadcast_call.delivered

\* C10: send_message does not raise to its caller; it delivers to at most the
\* one connection registered under client_id, and to none when client_id is
\* not registered
C10_SendNeverRaises ==
    /\ send_call.pc # "raised"
    /\ send_call.pc = "returned" =>
          /\ Cardinality(send_call.delivered) <= 1
          /\ ~send_call.registered => send_call.delivered = {}
          /\ (send_call.registered /\ ~Closed(websockets[send_call.websocket]))
                => send_call.delivered = {send_call.websocket}

\* a message has been delivered on connection w by this step
Delivered(w) == websockets'[w].n_sent = websockets[w].n_sent + 1

\* C11: every outbound send to a registered client updates the client's
\* last-activity timestamp: after a step that delivers a message on the
\* connection of a registered client, last_activity of that client is the
\* time of the send
C11_EverySendUpdatesLastActivity ==
    [][\A w \in Conns :
          (Delivered(w) /\ Registered(manager', websockets[w].client_id)) =>
              /\ websockets[w].client_id \in DOMAIN manager'.last_activity
              /\ manager'.last_activity[websockets[w].client_id] = clock']_vars

\* a heartbeat marker has been delivered on connection w by this step
HeartbeatDelivered(w) ==
    Delivered(w) /\ websockets'[w].last_sent.type = "heartbeat"

\* C12: a heartbeat marker is sent only when the client is registered at the
\* moment of sending, and on the connection registered for it; a heartbeat
\* task that wakes up when its client is no longer registered ends without
\* error and without sending anything
C12_HeartbeatOnlyWhileRegistered ==
    [][/\ \A w \in Conns :
             HeartbeatDelivered(w) =>
                 /\ Registered(manager, websockets[w].client_id)
                 /\ Lookup(manager, websockets[w].client_id) = w
       /\ \A t \in Conns :
             (/\ heartbeat_tasks[t] = "sleeping"
              /\ ~Registered(manager, websockets[t].client_id)
              /\ heartbeat_tasks'[t] # "sleeping") =>
                 /\ heartbeat_tasks'[t] \in {"done", "cancelled"}
                 /\ \A w \in Conns : ~Delivered(w)
                 /\ \A id \in Clients : ~Registered(manager', id) \/ Registered(manager, id)]_vars

\* a heartbeat has been delivered, and a heartbeat task has ended by itself
\* after its client was de-registered while its own endpoint is still active
C12_Witness ==
    /\ \E w \in Conns : websockets[w].last_sent.type = "heartbeat"
    /\ \E t \in Conns :
          /\ heartbeat_tasks[t] = "done"
          /\ websockets[t].pc = "receiving"
          /\ websockets[t].peer = "open"
          /\ ~Registered(manager, websockets[t].client_id)

\* what the registry holds for client_id is the same before and after the step
SameEntry(client_id) ==
    /\ Registered(manager', client_id) = Registered(manager, client_id)
    /\ Registered(manager, client_id) =>
          Lookup(manager', client_id) = Lookup(manager, client_id)
    /\ (client_id \in DOMAIN manager'.last_activity)
          = (client_id \in DOMAIN manager.last_activity)
    /\ client_id \in DOMAIN manager.last_activity =>
          manager'.last_activity[client_id] = manager.last_activity[client_id]

\* the heartbeat task of connection t ends in this step because its send failed
HeartbeatFailed(t) ==
    /\ heartbeat_tasks[t] = "sleeping"
    /\ Registered(manager, websockets[t].client_id)
    /\ heartbeat_tasks'[t] = "done"

\* C13: a failure while sending a heartbeat de-registers that client and ends
\* that client's heartbeat task only, and nothing propagates: the heartbeat
\* tasks and registry entries of all other clients, every endpoint and every
\* caller of the registry are left as they were
C13_HeartbeatFailureIsLocal ==
    [][\A t \in Conns :
          HeartbeatFailed(t) =>
              /\ ~Registered(manager', websockets[t].client_id)
              /\ websockets[t].client_id \notin DOMAIN manager'.last_activity
              /\ \A id \in Clients \ {websockets[t].client_id} : SameEntry(id)
              /\ \A u \in Conns \ {t} : heartbeat_tasks'[u] = heartbeat_tasks[u]
              /\ websockets' = websockets
              /\ broadcast_call' = broadcast_call
              /\ send_call' = send_call]_vars

\* the heartbeat of one client has failed and de-registered it before its
\* endpoint noticed the close, while another client is registered with its
\* heartbeat task asleep
C13_Witness ==
    \E t, u \in Conns :
        /\ websockets[t].client_id # websockets[u].client_id
        /\ websockets[t].pc = "receiving"
        /\ websockets[t].peer = "closed"
        /\ heartbeat_tasks[t] = "done"
        /\ ~Registered(manager, websockets[t].client_id)
        /\ websockets[u].pc = "receiving"
        /\ InRegistry(u)
        /\ heartbeat_tasks[u] = "sleeping"

\* the endpoint of connection w is in its receive loop
Active(w) == websockets[w].pc \in {"receiving", "inferring"}

\* the endpoint of connection w has left its receive loop: by
\* WebSocketDisconnect ("done") or by another exception ("failed")
Left(w) == websockets[w].pc \in {"done", "failed"}

\* C14: when a session leaves Active, by a clean close or by a fault, its
\* heartbeat task is cancelled and the registry holds no entry for its client
\* id; afterwards the connection is sent no heartbeat, its endpoint processes
\* no message, and a heartbeat task that wakes up after the de-registration
\* ends without error
C14_CleanupOnLeavingActive ==
    [][/\ \A w \in Conns :
             (Active(w) /\ websockets'[w].pc \in {"done", "failed"}) =>
                 /\ heartbeat_tasks'[w] \in {"cancelled", "done"}
                 /\ ~Registered(manager', websockets[w].client_id)
                 /\ websockets[w].client_id \notin DOMAIN manager'.last_activity
       /\ \A w \in Conns :
             Left(w) =>
                 /\ websockets'[w].pc = websockets[w].pc
                 /\ websockets'[w].prev = websockets[w].prev
                 /\ ~HeartbeatDelivered(w)
                 /\ ~InRegistry(w)
                 /\ heartbeat_tasks[w] \in {"cancelled", "done"}
                 /\ heartbeat_tasks'[w] = heartbeat_tasks[w]
       /\ \A t \in Conns :
             (heartbeat_tasks[t] = "sleeping" /\ heartbeat_tasks'[t] # "sleeping") =>
                 heartbeat_tasks'[t] \in {"cancelled", "done"}]_vars

\* one session was left by a clean close and another by a fault, and the
\* heartbeat tasks of both are cancelled
C14_Witness ==
    \E w, v \in Conns :
        /\ websockets[w].pc = "done"
        /\ websockets[v].pc = "failed"
        /\ websockets[w].ever_active
        /\ websockets[v].ever_active
        /\ heartbeat_tasks[w] = "cancelled"
        /\ heartbeat_tasks[v] = "cancelled"

(***************************************************************************)
(* The reconnection specification: client "c1" connects, is served, leaves *)
(* and connects again; a connection is attempted only when no other is in  *)
(* progress.                                                               *)
(***************************************************************************)
Ended(w) == websockets[w].pc \in {"rejected", "aborted", "done", "failed"}

ResumeHttp ==
    {Timeout}
    \cup {Response(200, Body(TRUE, TRUE, Keypoints(17, Entry("num", y, "num", 90)))) :
             y \in {40, 70}}

ResumeAttempt(w) ==
    /\ \A v \in Conns : websockets[v].pc = "none" \/ Ended(v)
    /\ Attempt(w, "c1", Origin("https://example.com"))

ResumeNext ==
    \/ \E w \in Conns : ResumeAttempt(w)
    \/ \E w \in Conns, a, b \in Outcomes : AcceptDone(w, a, b)
    \/ \E w \in Conns : RecvDisconnect(w)
    \/ \E w \in Conns : RecvFault(w)
    \/ \E w \in Conns, c \in Controls : RecvControl(w, c)
    \/ \E w \in Conns : RecvFrame(w)
    \/ \E w \in Conns, h \in ResumeHttp, o \in Outcomes : InferReturn(w, h, o)
    \/ \E w \in Conns : PeerClose(w)
    \/ SysTick

SpecResume == Init /\ [][ResumeNext]_vars

\* C15: the session survives the disconnect: no step taken while no endpoint
\* of the client is in its receive loop changes the client's session, the
\* step that establishes a connection of a client that has a session
\* included, so the exercise type, the rep counter (rep_count, history,
\* direction) and the processed-frame counter met after reconnecting are
\* those held at the disconnect
C15_SessionSurvivesDisconnect ==
    [][\A id \in Clients :
          (/\ id \in DOMAIN session_data
           /\ \A w \in Conns : websockets[w].client_id = id => ~Active(w)) =>
              /\ id \in DOMAIN session_data'
              /\ session_data'[id] = session_data[id]]_vars

\* the client has reconnected after a disconnect and its session is the one
\* of the first connection: exercise type set, frames processed, positions
\* buffered
C15_Witness ==
    /\ Left("w1")
    /\ websockets["w1"].ever_active
    /\ websockets["w2"].pc = "receiving"
    /\ websockets["w2"].prev = "none"
    /\ websockets["w2"].client_id = websockets["w1"].client_id
    /\ "c1" \in DOMAIN session_data
    /\ session_data["c1"].exercise_type = "bicep_curl"
    /\ session_data["c1"].processed_frames = 2
    /\ Len(session_data["c1"].rep_counter.positions) = 2

\* a RepCounter as constructed: rep_count 0, empty history, direction unknown
Fresh(rep_counter) ==
    /\ rep_counter.rep_count = 0
    /\ rep_counter.positions = <<>>
    /\ rep_counter.going_up = "None"

\* C16: a control message carrying exercise_type sets the session's exercise
\* type to that value and replaces the rep counter by a fresh one; a control
\* message carrying action = reset replaces the rep counter by a fresh one and
\* leaves the exercise type unchanged; a control message with neither field
\* changes no session state
C16_ControlEffects ==
    [][\A w \in Conns, c \in Controls :
          RecvControl(w, c) =>
              LET id == websockets[w].client_id IN
              /\ c.has_exercise_type =>
                    /\ session_data'[id].exercise_type = c.exercise_type
                    /\ Fresh(session_data'[id].rep_counter)
              /\ (~c.has_exercise_type /\ c.action = "reset") =>
                    /\ session_data'[id].exercise_type = session_data[id].exercise_type
                    /\ Fresh(session_data'[id].rep_counter)
              /\ (~c.has_exercise_type /\ c.action # "reset") =>
                    session_data' = session_data]_vars

\* an exercise_type control message has just been handled in a session that
\* had processed frames, and the rep counter is fresh
C16_Witness ==
    /\ websockets["w1"].pc = "receiving"
    /\ websockets["w1"].prev = "exercise_type"
    /\ session_data["c1"].processed_frames = 3
    /\ session_data["c1"].exercise_type = "bicep_curl"
    /\ Fresh(session_data["c1"].rep_counter)

\* C17: every parsed control message, one with no recognized field included,
\* is answered by exactly one {"status": "ok"}, is not passed to the
\* inference service, and changes neither the processed-frame counter nor
\* the last-frame timestamp
C17_ControlAcknowledged ==
    [][\A w \in Conns, c \in Controls :
          RecvControl(w, c) =>
              LET id == websockets[w].client_id IN
              /\ Delivered(w)
              /\ websockets'[w].last_sent = Message("ok")
              /\ websockets'[w].pc = "receiving"
              /\ budget'.frames = budget.frames
              /\ session_data'[id].processed_frames = session_data[id].processed_frames
              /\ session_data'[id].last_frame_time = session_data[id].last_frame_time]_vars

\* a control message with no recognized field has been acknowledged, some
\* time after the last frame
C17_Witness ==
    /\ websockets["w1"].pc = "receiving"
    /\ websockets["w1"].prev = "other"
    /\ websockets["w1"].last_sent = Message("ok")
    /\ session_data["c1"].processed_frames = 1
    /\ session_data["c1"].last_frame_time < clock

\* the outcomes of the HTTP exchange that call_inference_service turns into
\* an error object: timeout, transport failure, non-200 status, a body that
\* is not JSON
ErrorOutcomes ==
    {Timeout, Refused,
     Response(500, Body(TRUE, FALSE, Keypoints(0, NoEntry))),
     Response(200, Body(FALSE, FALSE, Keypoints(0, NoEntry)))}

\* C18: when the inference result of a frame is an error, that error object
\* is sent to the client as it is, with no rep_count and no form_quality; the
\* rep counter and the exercise type are unchanged and the session stays
\* active
C18_InferenceErrorRelayed ==
    [][\A w \in Conns, h \in ErrorOutcomes, o \in Outcomes :
          (InferReturn(w, h, o) /\ websockets[w].peer = "open") =>
              /\ Delivered(w)
              /\ websockets'[w].last_sent = call_inference_service(h)
              /\ websockets'[w].last_sent.error # "none"
              /\ ~websockets'[w].last_sent.has_rep_count
              /\ ~websockets'[w].last_sent.has_form_quality
              /\ session_data' = session_data
              /\ websockets'[w].pc = "receiving"
              /\ heartbeat_tasks' = heartbeat_tasks
              /\ manager' = manager]_vars

\* a timeout has been relayed for the second frame of a session whose first
\* frame was counted
C18_Witness ==
    /\ websockets["w1"].pc = "receiving"
    /\ websockets["w1"].prev = "frame"
    /\ websockets["w1"].last_sent.error = "Inference service timeout"
    /\ session_data["c1"].processed_frames = 2
    /\ Len(session_data["c1"].rep_counter.positions) = 1

\* C19: every response to a frame whose inference call succeeded carries both
\* a rep_count and a form_quality, whatever the payload holds for keypoints
C19_SuccessResponseEnriched ==
    \A w \in Conns :
        (websockets[w].last_sent.type = "result"
            /\ websockets[w].last_sent.error = "none") =>
            /\ websockets[w].last_sent.has_rep_count
            /\ websockets[w].last_sent.has_form_quality

\* C20: a session leaves its receive loop only on a transport fault or close:
\* while the peer is open, the step that handles the inference outcome of a
\* frame, and the step that receives a frame, never end the session
C20_FrameFailuresNotFatal ==
    [][\A w \in Conns :
          (/\ websockets[w].peer = "open"
           /\ \/ websockets[w].pc = "inferring"
              \/ websockets[w].pc = "receiving" /\ budget'.frames # budget.frames) =>
              websockets'[w].pc \in {"receiving", "inferring"}]_vars

(***************************************************************************)
(* The inference specification: one connection of client "c1" sending      *)
(* frames, with HTTP exchanges of every kind of status and body.           *)
(***************************************************************************)
Statuses == {200, 201, 204, 404, 500}

InferOutcomes ==
    {Timeout, Refused}
    \cup {Response(s, Body(TRUE, TRUE, Keypoints(17, Entry("num", 40, "num", 90)))) :
             s \in Statuses}
    \cup {Response(s, Body(FALSE, FALSE, Keypoints(0, NoEntry))) : s \in Statuses}

InferNext ==
    \/ Attempt("w1", "c1", Origin("https://example.com"))
    \/ \E a, b \in Outcomes : AcceptDone("w1", a, b)
    \/ RecvDisconnect("w1")
    \/ RecvFrame("w1")
    \/ \E h \in InferOutcomes, o \in Outcomes : InferReturn("w1", h, o)
    \/ PeerClose("w1")
    \/ SysTick

SpecInfer == Init /\ [][InferNext]_vars

\* a response with a status from 200 to 299
Is2xx(http) == http.kind = "response" /\ http.status \in 200..299

\* C21: call_inference_service never raises and turns every outcome of its
\* one HTTP call into a result: a 2xx response yields the payload, a non-2xx
\* response an error carrying the status code, a timeout the timeout error,
\* any other transport failure the unreachable error
C21_EveryOutcomeTyped ==
    [][\A h \in InferOutcomes, o \in Outcomes :
          (InferReturn("w1", h, o) /\ websockets["w1"].peer = "open") =>
              LET r == websockets'["w1"].last_sent IN
              /\ Delivered("w1")
              /\ (Is2xx(h) /\ h.body.valid_json) =>
                    /\ r.error = "none"
                    /\ r.has_keypoints = h.body.has_keypoints
                    /\ r.keypoints = h.body.keypoints
              /\ (h.kind = "response" /\ ~Is2xx(h)) =>
                    /\ r.error = "Inference service error"
                    /\ r.status = h.status
              /\ h.kind = "timeout" => r.error = "Inference service timeout"
              /\ h.kind = "refused" => r.error = "Error calling inference service"]_vars

(***************************************************************************)
(* The two-session specification: two connections served concurrently,     *)
(* under the same client id or under two, each sending frames, with their  *)
(* heartbeats.                                                             *)
(***************************************************************************)
PairHttp ==
    {Timeout,
     Response(200, Body(TRUE, TRUE, Keypoints(17, Entry("num", 40, "num", 90)))),
     Response(200, Body(TRUE, TRUE, Keypoints(17, NoEntry)))}

PairNext ==
    \/ \E w \in Conns, id \in Clients : Attempt(w, id, Origin("https://example.com"))
    \/ \E w \in Conns, a, b \in Outcomes : AcceptDone(w, a, b)
    \/ \E w \in Conns : RecvDisconnect(w)
    \/ \E w \in Conns : RecvFault(w)
    \/ \E w \in Conns : RecvFrame(w)
    \/ \E w \in Conns, h \in PairHttp, o \in Outcomes : InferReturn(w, h, o)
    \/ \E w \in Conns : PeerClose(w)
    \/ \E w \in Conns : HeartbeatStart(w)
    \/ \E w \in Conns, o \in Outcomes : HeartbeatWake(w, o)

SpecPair == Init /\ [][PairNext]_vars

\* the connections whose endpoint holds a frame of client_id that has been
\* received and whose response has not yet been sent
FramesInFlight(client_id) ==
    {w \in Conns : websockets[w].client_id = client_id /\ websockets[w].pc = "inferring"}

\* C22: for every client identifier at most one frame is between being
\* received and having its response sent, over all interleavings of
\* connections, inference calls and heartbeats
C22_OneFrameAtATimePerClient ==
    \A id \in Clients : Cardinality(FramesInFlight(id)) <= 1

\* everything the service holds for client_id: its registry entry, its
\* last-activity, its session, and the endpoint and heartbeat task of each of
\* its connections
Footprint(client_id) ==
    [registered |-> Registered(manager, client_id),
     websocket |-> IF Registered(manager, client_id) THEN Lookup(manager, client_id)
                   ELSE "none",
     last_activity |-> IF client_id \in DOMAIN manager.last_activity
                       THEN manager.last_activity[client_id] ELSE -1,
     session |-> IF client_id \in DOMAIN session_data
                 THEN <<session_data[client_id]>> ELSE <<>>,
     connections |-> [w \in Conns |->
                        IF websockets[w].pc # "none" /\ websockets[w].client_id = client_id
                        THEN <<websockets[w], heartbeat_tasks[w]>> ELSE <<>>]]

\* C23: session isolation: no step changes what the service holds for two
\* different client identifiers, so an event in one session (inference
\* error, malformed payload, transport fault, heartbeat failure, disconnect)
\* leaves the other's registry entry, last-activity, heartbeat task, session
\* state and active status as they were
C23_SessionIsolation ==
    [][\A a, b \in Clients :
          a # b => \/ Footprint(a)' = Footprint(a)
                   \/ Footprint(b)' = Footprint(b)]_vars

\* the session of one client has been ended by a malformed payload while the
\* session of another client, which has processed a frame, is active,
\* registered and has its heartbeat task asleep
C23_Witness ==
    \E w, v \in Conns :
        /\ websockets[w].client_id # websockets[v].client_id
        /\ websockets[w].pc = "failed"
        /\ websockets[w].peer = "open"
        /\ websockets[w].prev = "frame"
        /\ heartbeat_tasks[w] = "cancelled"
        /\ ~Registered(manager, websockets[w].client_id)
        /\ websockets[v].pc = "receiving"
        /\ InRegistry(v)
        /\ heartbeat_tasks[v] = "sleeping"
        /\ websockets[v].client_id \in DOMAIN session_data
        /\ session_data[websockets[v].client_id].processed_frames = 1

(***************************************************************************)
(* The session specification with its scheduling: an inference call        *)
(* returns (it is bounded by the 5 s timeout of line 87), and a receive on *)
(* a closed connection raises WebSocketDisconnect.                         *)
(***************************************************************************)
SpecSessionFair ==
    /\ Init
    /\ [][SessionNext]_vars
    /\ WF_vars(\E h \in HttpOutcomes, o \in Outcomes : InferReturn("w1", h, o))
    /\ WF_vars(RecvDisconnect("w1"))

\* this step reads a message from connection w
Reads(w) ==
    /\ websockets[w].pc = "receiving"
    /\ budget'.frames + budget'.controls = budget.frames + budget.controls + 1

\* this step sends the answer to the message read last on connection w
Answers(w) ==
    /\ Delivered(w)
    /\ websockets'[w].pc = "receiving"
    /\ websockets'[w].last_sent.type \in {"ok", "result"}

\* C24: no message is dropped and no session blocks: a control message is
\* answered in the step that reads it; a frame is held until its inference
\* call returns, and is then answered by one message (error or result) or
\* the session ends, unless the peer has closed, in which case nothing more
\* is read and the session ends; and each of these comes about
C24_EveryMessageAnswered ==
    /\ [][\A w \in Conns :
             /\ Reads(w) =>
                   /\ websockets[w].peer = "open"
                   /\ Answers(w) \/ websockets'[w].pc \in {"inferring", "failed"}
             /\ (websockets[w].pc = "inferring" /\ websockets'[w].pc # "inferring") =>
                   \/ Answers(w) /\ websockets'[w].n_sent = websockets[w].n_sent + 1
                   \/ websockets'[w].pc = "failed"
                   \/ websockets[w].peer = "closed" /\ websockets'[w].pc = "receiving"]_vars
    /\ websockets["w1"].pc = "inferring" ~> websockets["w1"].pc # "inferring"
    /\ (websockets["w1"].pc = "receiving" /\ websockets["w1"].peer = "closed")
          ~> Left("w1")

\* the third frame of a session has been answered by a result
C24_Witness ==
    /\ websockets["w1"].pc = "receiving"
    /\ websockets["w1"].prev = "frame"
    /\ websockets["w1"].last_sent.type = "result"
    /\ budget.frames = 3
    /\ websockets["w1"].n_sent = 4

(***************************************************************************)
(* The control specification: one connection of client "c1" sending        *)
(* control messages with any value of exercise_type.                       *)
(***************************************************************************)
ExerciseTypes == {"squat", "bicep_curl", "tpose", "lateral_raise", "plank"}

AnyControls ==
    {Control(TRUE, e, a) : e \in ExerciseTypes \cup {"zumba"}, a \in {"none", "reset"}}
    \cup {Control(FALSE, "none", a) : a \in {"none", "reset"}}

ControlNext ==
    \/ Attempt("w1", "c1", Origin("https://example.com"))
    \/ \E a, b \in Outcomes : AcceptDone("w1", a, b)
    \/ RecvDisconnect("w1")
    \/ \E c \in AnyControls : RecvControl("w1", c)
    \/ RecvFrame("w1")
    \/ \E h \in PairHttp, o \in Outcomes : InferReturn("w1", h, o)
    \/ PeerClose("w1")
    \/ SysTick

SpecControl == Init /\ [][ControlNext]_vars

\* C25: in every reachable state the exercise type of each session is one of
\* squat, bicep_curl, tpose, lateral_raise, plank
C25_ExerciseTypeEnumerated ==
    \A id \in DOMAIN session_data : session_data[id].exercise_type \in ExerciseTypes

\* this step is an update call that accepts a sample: the list reaches the
\* tracked index and the tracked entry has sufficient confidence
AcceptsSample ==
    /\ n_calls' = n_calls + 1
    /\ call'.keypoints.len > keypoint_idx
    /\ call'.keypoints.kp.shape = "dict"
    /\ call'.keypoints.kp.ckind = "num"
    /\ call'.keypoints.kp.ykind = "num"
    /\ call'.keypoints.kp.conf >= ConfidenceThreshold

\* C26: an update that accepts a sample and then has at least 3 buffered
\* samples sets the direction to rising iff the newest value is below the
\* average of the others, and increases rep_count, by 1 and with the last-rep
\* timestamp set to now, exactly when a previous direction was established,
\* the new one differs, more than 0.5 s have passed since the last counted
\* rep and max - min of the window exceeds 0.15; with fewer than 3 buffered
\* samples neither direction nor count changes
C26_DirectionAndCount ==
    [][AcceptsSample =>
          LET hist == counter'.positions
              n == Len(hist)
              rising == hist[n] * (n - 1) < Sum(Front(hist))
              counted == /\ counter.going_up # "None"
                         /\ counter.going_up # BoolStr(rising)
                         /\ clock - counter.last_rep_time > 5
                         /\ SeqMax(hist) - SeqMin(hist) > 15
          IN  /\ hist[n] = call'.keypoints.kp.y
              /\ n < 3 =>
                    /\ counter'.going_up = counter.going_up
                    /\ counter'.rep_count = counter.rep_count
                    /\ counter'.last_rep_time = counter.last_rep_time
              /\ n >= 3 =>
                    /\ counter'.going_up = BoolStr(rising)
                    /\ counter'.rep_count = counter.rep_count + (IF counted THEN 1 ELSE 0)
                    /\ counter'.last_rep_time =
                          IF counted THEN clock ELSE counter.last_rep_time
              /\ call'.ret = counter'.rep_count]_vars

\* two reps have been counted, the second at most 0.5 s ago, with five or
\* more samples buffered and at least four calls that counted nothing
C26_Witness ==
    /\ counter.rep_count = 2
    /\ Len(counter.positions) >= 5
    /\ clock - counter.last_rep_time <= 5
    /\ n_calls > Len(rep_times) + 3

\* C27: for the lifetime of one RepCounter, rep_count never decreases over
\* any sequence of update calls, and one call increases it by at most 1
C27_RepCountMonotone ==
    [][/\ counter'.rep_count >= counter.rep_count
       /\ counter'.rep_count <= counter.rep_count + 1]_vars

\* three reps have been counted within six calls
C27_Witness ==
    /\ counter.rep_count = 3
    /\ Len(rep_times) = 3
    /\ n_calls = 6

\* the number of values the history holds after n accepted samples
Held(n) == IF n < 10 THEN n ELSE 10

\* C28: the position history never holds more than 10 values and is strict
\* FIFO: after n accepted samples it is the last min(n, 10) accepted
\* vertical coordinates in arrival order
C28_HistoryBoundedFifo ==
    osc.A > 0 =>
        /\ Len(counter.positions) <= 10
        /\ Len(counter.positions) = Held(osc.k)
        /\ \A i \in 1..Len(counter.positions) :
              counter.positions[i] = Wave(osc.A, osc.H, osc.k - Held(osc.k) + i - 1)

\* fifteen samples of a wave of 10 samples per period have been accepted, so
\* five have been evicted
C28_Witness ==
    /\ osc.A = 30
    /\ osc.H = 5
    /\ osc.k = 15
    /\ Len(counter.positions) = 10
    /\ counter.positions[1] = Wave(30, 5, 5)
    /\ counter.positions[10] = Wave(30, 5, 14)

\* C29: in every reachable state of the ConnectionManager the client ids with
\* a last-activity timestamp are the client ids with an active connection
C29_ActivityMatchesConnections ==
    DOMAIN manager.last_activity = RegisteredIds(manager)

\* the heartbeat tasks of client_id that have not ended
LiveHeartbeats(client_id) ==
    {t \in Conns : /\ websockets[t].pc # "none"
                   /\ websockets[t].client_id = client_id
                   /\ heartbeat_tasks[t] \in {"created", "sleeping"}}

\* C30: while a session is active the registry maps its client id to the
\* session's own connection and exactly one heartbeat task is live for that
\* client id
C30_ActiveSessionOwnsRegistryEntry ==
    \A w \in Conns :
        Active(w) =>
            /\ Registered(manager, websockets[w].client_id)
            /\ Lookup(manager, websockets[w].client_id) = w
            /\ Cardinality(LiveHeartbeats(websockets[w].client_id)) = 1

====
